---- MODULE Spec2Model ----
(***************************************************************************)
(* The issues command (mellium.im/issues): migration of a Bitbucket issue  *)
(* export to GitHub.  src/issues.go holds two revisions of main:           *)
(*   rev = "import"  lines 59-306: enumerate the existing issues, skip     *)
(*                   that many source issues, POST each remaining issue to *)
(*                   the import endpoint, pause with wait();               *)
(*   rev = "create"  lines 384-583: Issues.Create, then Issues.Edit for a  *)
(*                   closed issue, then an inline Retry-After pause.       *)
(* Strings are sequences of one-character strings, so that ToLower, Atoi   *)
(* and ParseDuration are computed and not assumed.  Durations are in       *)
(* milliseconds.  Every response of the client is taken to be non-nil, as  *)
(* the code dereferences it unconditionally.                               *)
(***************************************************************************)
EXTENDS Integers, Sequences, FiniteSets, TLC

VARIABLES
  rev,        \* which revision of main runs
  hdrMode,    \* which Retry-After values the destination sends: none, sample, all
  runsLeft,   \* how many more times the operator starts the command
  export,     \* issues.Issues as decoded from the archive
  issues,     \* issues.Issues as main holds it (sorted, skipped)
  idx,        \* position of the range loop in issues
  pc,         \* position of main
  imported,   \* the imported counter
  errors,     \* the errors counter
  closed,     \* closed / state == "closed" of the issue in hand
  err,        \* err of the create call of the issue in hand (TRUE: non-nil)
  isNumber,   \* *is.Number of the create result, 0 when nil
  resp,       \* Retry-After header of the response main holds in resp
  dest,       \* the destination repository's issues
  trace,      \* destination API calls and pauses of this run, in order
  history,    \* the traces of the earlier runs
  unknownLog, \* IDs for which "Found unknown status" was logged this run
  stderr,     \* what the final Fprintln wrote this run
  labelsFlag, \* the -labels flag
  labels      \* the labels slice of the issue in hand

vars == <<rev, hdrMode, runsLeft, export, issues, idx, pc, imported, errors,
          closed, err, isNumber, resp, dest, trace, history, unknownLog, stderr,
          labelsFlag, labels>>

\* ----------------------------------------------------------------- bounds
MaxIssues == 3
MaxExisting == 4
MaxRuns == 2
MaxRetryLen == 3

\* time.Second, in the model's unit (milliseconds)
Second == 1000

\* ---------------------------------------------------------------- strings
Upper == <<"A","B","C","D","E","F","G","H","I","J","K","L","M",
           "N","O","P","Q","R","S","T","U","V","W","X","Y","Z">>
Lower == <<"a","b","c","d","e","f","g","h","i","j","k","l","m",
           "n","o","p","q","r","s","t","u","v","w","x","y","z">>
Digits == <<"0","1","2","3","4","5","6","7","8","9">>

ToLowerChar(c) ==
  IF \E i \in 1..26 : Upper[i] = c
  THEN Lower[CHOOSE i \in 1..26 : Upper[i] = c]
  ELSE c

ToUpperChar(c) ==
  IF \E i \in 1..26 : Lower[i] = c
  THEN Upper[CHOOSE i \in 1..26 : Lower[i] = c]
  ELSE c

\* strings.ToLower
ToLower(s) == [i \in 1..Len(s) |-> ToLowerChar(s[i])]

IsDigit(c) == \E i \in 1..10 : Digits[i] = c
DigitVal(c) == (CHOOSE i \in 1..10 : Digits[i] = c) - 1

RECURSIVE DecVal(_)
DecVal(s) ==
  IF s = <<>> THEN 0
  ELSE DecVal(SubSeq(s, 1, Len(s) - 1)) * 10 + DigitVal(s[Len(s)])

RECURSIVE DigitSpan(_)
DigitSpan(s) ==
  IF s # <<>> /\ IsDigit(s[1]) THEN 1 + DigitSpan(Tail(s)) ELSE 0

RECURSIVE UnitSpan(_)
UnitSpan(s) ==
  IF s # <<>> /\ s[1] # "." /\ ~IsDigit(s[1]) THEN 1 + UnitSpan(Tail(s)) ELSE 0

RECURSIVE Pow10(_)
Pow10(k) == IF k = 0 THEN 1 ELSE 10 * Pow10(k - 1)

Drop(s, k) == SubSeq(s, k + 1, Len(s))

RECURSIVE SeqsOfLen(_, _)
SeqsOfLen(A, n) ==
  IF n = 0 THEN {<<>>}
  ELSE {Append(s, c) : s \in SeqsOfLen(A, n - 1), c \in A}

SeqsUpTo(A, n) == UNION {SeqsOfLen(A, k) : k \in 0..n}

\* ---------------------------------------------------------- status mapping
ClosedStatuses ==
  { <<"r","e","s","o","l","v","e","d">>, <<"c","l","o","s","e","d">>,
    <<"i","n","v","a","l","i","d">>, <<"w","o","n","t","f","i","x">>,
    <<"d","u","p","l","i","c","a","t","e">> }

OpenStatuses ==
  { <<"n","e","w">>, <<"o","p","e","n">>,
    <<"o","n"," ","h","o","l","d">>, <<"o","n","h","o","l","d">> }

\* the first case of the switch on strings.ToLower(issue.Status)
StatusClosedExact(status) == status \in ClosedStatuses

StatusClosed(status) == ToLower(status) \in ClosedStatuses

\* the default case of the switch: the "Found unknown status" debug line
StatusUnknown(status) == ToLower(status) \notin (ClosedStatuses \cup OpenStatuses)

\* ------------------------------------------------------------- Retry-After
\* strconv.Atoi: an optional sign, then one or more decimal digits
Atoi(s) ==
  LET signed == s # <<>> /\ s[1] \in {"+", "-"}
      body   == IF signed THEN Tail(s) ELSE s
  IN  IF body # <<>> /\ DigitSpan(body) = Len(body)
      THEN [ok |-> TRUE,
            n  |-> IF signed /\ s[1] = "-" THEN 0 - DecVal(body) ELSE DecVal(body)]
      ELSE [ok |-> FALSE, n |-> 0]

\* time.ParseDuration's unit table, as num/den milliseconds
UnitNames ==
  { <<"n","s">>, <<"u","s">>, <<"m","s">>, <<"s">>, <<"m">>, <<"h">> }

UnitNum(u) ==
  CASE u = <<"s">> -> 1000
    [] u = <<"m">> -> 60000
    [] u = <<"h">> -> 3600000
    [] OTHER -> 1

UnitDen(u) ==
  CASE u = <<"n","s">> -> 1000000
    [] u = <<"u","s">> -> 1000
    [] OTHER -> 1

\* the loop of time.ParseDuration over [0-9]*(\.[0-9]*)?[a-z]+ groups
RECURSIVE ParseGroups(_)
ParseGroups(s) ==
  IF s = <<>> THEN [ok |-> TRUE, d |-> 0]
  ELSE IF ~(s[1] = "." \/ IsDigit(s[1])) THEN [ok |-> FALSE, d |-> 0]
  ELSE
    LET p      == DigitSpan(s)
        s1     == Drop(s, p)
        hasDot == s1 # <<>> /\ s1[1] = "."
        s2     == IF hasDot THEN Tail(s1) ELSE s1
        q      == IF hasDot THEN DigitSpan(s2) ELSE 0
        s3     == Drop(s2, q)
        u      == UnitSpan(s3)
        unit   == SubSeq(s3, 1, u)
    IN  IF p = 0 /\ q = 0 THEN [ok |-> FALSE, d |-> 0]
        ELSE IF u = 0 THEN [ok |-> FALSE, d |-> 0]
        ELSE IF unit \notin UnitNames THEN [ok |-> FALSE, d |-> 0]
        ELSE
          LET v    == DecVal(SubSeq(s, 1, p))
              f    == DecVal(SubSeq(s2, 1, q))
              here == (v * UnitNum(unit)) \div UnitDen(unit)
                      + (f * UnitNum(unit)) \div (Pow10(q) * UnitDen(unit))
              rest == ParseGroups(Drop(s3, u))
          IN  IF rest.ok THEN [ok |-> TRUE, d |-> here + rest.d]
              ELSE [ok |-> FALSE, d |-> 0]

\* time.ParseDuration
ParseDuration(s) ==
  LET signed == s # <<>> /\ s[1] \in {"+", "-"}
      body   == IF signed THEN Tail(s) ELSE s
  IN  IF body = <<"0">> THEN [ok |-> TRUE, d |-> 0]
      ELSE IF body = <<>> THEN [ok |-> FALSE, d |-> 0]
      ELSE LET r == ParseGroups(body)
           IN  IF ~r.ok THEN r
               ELSE IF signed /\ s[1] = "-" THEN [ok |-> TRUE, d |-> 0 - r.d]
               ELSE r

\* wait(resp, debug): the duration handed to time.Sleep
WaitTimeNoAtoi(retry) ==
  IF retry = <<>> THEN Second
  ELSE LET p == ParseDuration(retry)
       IN  IF p.ok THEN p.d ELSE Second

WaitTime(retry) ==
  IF retry = <<>> THEN Second
  ELSE LET a == Atoi(retry)
       IN  IF a.ok THEN a.n * Second
           ELSE LET p == ParseDuration(retry)
                IN  IF p.ok THEN p.d ELSE Second

\* the inline pause of the create revision: time.ParseDuration alone
InlineWaitTime(retry) ==
  LET p == ParseDuration(retry)
  IN  IF p.ok THEN p.d ELSE Second

\* ------------------------------------------------------- sort and skipping
\* sort.Sort(issues.Issues): ascending by ID
RECURSIVE SortByID(_)
SortByID(s) ==
  IF s = <<>> THEN <<>>
  ELSE LET m == CHOOSE i \in 1..Len(s) : \A j \in 1..Len(s) : s[i].ID <= s[j].ID
       IN  <<s[m]>> \o SortByID(SubSeq(s, 1, m - 1) \o Drop(s, m))

\* issues.Issues = issues.Issues[n:], or the empty tail when len <= n
SkipResolve(s, n) ==
  IF Len(s) <= n THEN Drop(s, Len(s)) ELSE Drop(s, n)

\* ------------------------------------------------------------------ labels
\* strings.Split(s, ","): the pieces between the commas, empty ones included
RECURSIVE Split(_)
Split(s) ==
  IF \E k \in 1..Len(s) : s[k] = ","
  THEN LET k == CHOOSE i \in 1..Len(s) : s[i] = "," /\ \A j \in 1..(i - 1) : s[j] # ","
       IN  <<SubSeq(s, 1, k - 1)>> \o Split(Drop(s, k))
  ELSE <<s>>

\* lines 190-204 and 512-526: the labels of one issue.  Component is a
\* pointer: <<>> is nil, <<c>> points to the string c
DeriveLabels(flag, issue) ==
  Split(flag)
    \o (IF issue.Priority # <<>> THEN <<issue.Priority>> ELSE <<>>)
    \o (IF issue.Kind # <<>> THEN <<issue.Kind>> ELSE <<>>)
    \o (IF issue.Component # <<>> /\ issue.Component[1] # <<>>
        THEN <<issue.Component[1]>> ELSE <<>>)
    \o (IF issue.Status # <<>> THEN <<issue.Status>> ELSE <<>>)

\* ------------------------------------------------------------------ events
\* op: the call or "wait"; id: the source issue; ok: err == nil; hdr: the
\* Retry-After value of the response (of the response used, for a wait);
\* d: the time slept; num: the issue number Issues.Create returned or
\* Issues.Edit was given (0 when nil), the length of the list for "list"
Ev(op, id, ok, hdr, d, num) ==
  [op |-> op, id |-> id, ok |-> ok, hdr |-> hdr, d |-> d, num |-> num]

\* the line the final Fprintln writes: the octocat carrying the tally, or
\* the empty string when the Octocat call failed
ReportLine(ok) ==
  IF ok THEN [imported |-> imported, errors |-> errors] ELSE <<>>

\* ------------------------------------------------------------------ inputs
HdrSample == { <<>>, <<"5">>, <<"2","s">> }
HdrAlphabet == {"0", "2", "3", "5", "-", "+", ".", "s", "m", "h", "g"}
AllHeaders ==
  SeqsUpTo(HdrAlphabet, MaxRetryLen) \cup { <<"g","a","r","b","a","g","e">> }

Hdrs ==
  CASE hdrMode = "none" -> { <<>> }
    [] hdrMode = "sample" -> HdrSample
    [] OTHER -> AllHeaders

RECURSIVE CaseVariants(_)
CaseVariants(w) ==
  IF w = <<>> THEN {<<>>}
  ELSE {<<c>> \o v : c \in {w[1], ToUpperChar(w[1])}, v \in CaseVariants(Tail(w))}

OtherStatuses ==
  { <<>>, <<"b","o","g","u","s">>, <<"o","p","e","n"," ">>,
    <<"R","e","o","p","e","n","e","d">>, <<"f","i","x","e","d">> }

StatusInputs ==
  UNION {CaseVariants(w) : w \in ClosedStatuses \cup OpenStatuses} \cup OtherStatuses

StatusSample ==
  { <<"o","p","e","n">>, <<"r","e","s","o","l","v","e","d">>,
    <<"w","o","n","t","f","i","x">> }

IdOf(k) == 10 * k

Major == <<"m","a","j","o","r">>
Bug == <<"b","u","g">>

\* an issue of the export: the fields main reads
Issue(id, status) ==
  [ID |-> id, Status |-> status, Priority |-> Major, Kind |-> Bug, Component |-> <<>>]

\* exports whose IDs descend, each status from the sample
Descending(n) == [i \in 1..n |-> IdOf(n + 1 - i)]

EngineExports(max) ==
  UNION { { [i \in 1..n |-> Issue(Descending(n)[i], st[i])] :
              st \in [1..n -> StatusSample] } : n \in 0..max }

\* exports whose IDs descend, every issue open
OpenExports ==
  { [i \in 1..n |-> Issue(Descending(n)[i], <<"o","p","e","n">>)] :
      n \in 0..MaxIssues }

\* exports in every order of distinct IDs, every issue open
OrderExports ==
  { [i \in 1..Len(q) |-> Issue(IdOf(q[i]), <<"o","p","e","n">>)] :
      q \in { p \in SeqsUpTo(1..MaxIssues, MaxIssues) :
                \A i, j \in 1..Len(p) : i # j => p[i] # p[j] } }

Foreign(k) == [i \in 1..k |-> [src |-> 0, closed |-> FALSE]]

InitWith(r, mode, runs, ex, existing, flag) ==
  /\ rev = r
  /\ labelsFlag = flag
  /\ labels = <<>>
  /\ hdrMode = mode
  /\ runsLeft = runs
  /\ export = ex
  /\ issues = ex
  /\ idx = 1
  /\ pc = "main"
  /\ imported = 0
  /\ errors = 0
  /\ closed = FALSE
  /\ err = FALSE
  /\ isNumber = 0
  /\ resp = <<>>
  /\ dest = Foreign(existing)
  /\ trace = <<>>
  /\ history = <<>>
  /\ unknownLog = <<>>
  /\ stderr = <<>>

OneIssue(status) == << Issue(IdOf(1), status) >>

\* the -labels values and the single-issue exports of the label cases
FlagInputs ==
  { <<>>, <<"a">>, <<"a",",","b">>, <<"a",",",",","b">>, <<",">> }

LabelExports ==
  { << [ID |-> IdOf(1), Status |-> st, Priority |-> pr, Kind |-> ki, Component |-> co] >> :
      st \in { <<>>, <<"o","p","e","n">>, <<"r","e","s","o","l","v","e","d">> },
      pr \in { <<>>, Major }, ki \in { <<>>, Bug },
      co \in { <<>>, << <<>> >>, << <<"u","i">> >> } }

InitRev(r) ==
  \/ \E ex \in EngineExports(MaxIssues), k \in 0..(IF r = "import" THEN MaxExisting ELSE 0) :
       InitWith(r, "none", 0, ex, k, <<>>)
  \/ \E ex \in OrderExports : InitWith(r, "none", 0, ex, 0, <<>>)
  \/ \E ex \in OpenExports : InitWith(r, "none", MaxRuns - 1, ex, 0, <<>>)
  \/ \E ex \in EngineExports(1), k \in 0..1 : InitWith(r, "sample", 0, ex, k, <<>>)
  \/ \E st \in StatusInputs : InitWith(r, "none", 0, OneIssue(st), 0, <<>>)
  \/ InitWith(r, "all", 0, IF r = "import" THEN <<>> ELSE OneIssue(<<"o","p","e","n">>), 0, <<>>)
  \/ \E ex \in LabelExports, fl \in FlagInputs : InitWith(r, "none", 0, ex, 0, fl)

InitImport == InitRev("import")
InitCreate == InitRev("create")
Init == InitImport \/ InitCreate

\* the range loop's step: the next issue, whatever the calls returned
AfterIssueRetry == IF err THEN idx ELSE idx + 1

AfterIssue == idx + 1

\* ------------------------------------------------- the import revision
\* lines 176-178: logger.Fatalf when the enumeration failed
AfterListGoOn(ok) == "loop"

AfterList(ok) == IF ok THEN "loop" ELSE "fatal"

\* lines 171-186: sort, ListByRepo, the skip, wait
ImportEnumerate ==
  /\ rev = "import" /\ pc = "main"
  /\ \E ok \in BOOLEAN, h \in Hdrs :
       LET sorted == SortByID(issues)
       IN  /\ resp' = h
           /\ idx' = 1
           /\ IF ok
              THEN /\ issues' = SkipResolve(sorted, Len(dest))
                   /\ trace' = trace \o << Ev("list", 0, TRUE, h, 0, Len(dest)),
                                           Ev("wait", 0, TRUE, h, WaitTime(h), 0) >>
              ELSE /\ issues' = sorted
                   /\ trace' = Append(trace, Ev("list", 0, FALSE, h, 0, 0))
           /\ pc' = AfterList(ok)
  /\ UNCHANGED <<rev, hdrMode, runsLeft, export, imported, errors, closed, err,
                 isNumber, dest, history, unknownLog, stderr, labelsFlag, labels>>

\* lines 189-272: one iteration of importloop up to the panic
ImportIssue ==
  /\ rev = "import" /\ pc = "loop" /\ idx <= Len(issues)
  /\ LET issue == issues[idx]
     IN  /\ labels' = DeriveLabels(labelsFlag, issue)
         /\ closed' = StatusClosed(issue.Status)
         /\ unknownLog' = IF StatusUnknown(issue.Status)
                          THEN Append(unknownLog, issue.ID) ELSE unknownLog
         /\ \E ok \in BOOLEAN, h \in Hdrs :
              /\ resp' = h
              /\ err' = ~ok
              /\ IF ok
                 THEN /\ trace' = Append(trace, Ev("create", issue.ID, TRUE, h, 0, 0))
                      /\ dest' = Append(dest, [src |-> issue.ID, closed |-> closed'])
                      /\ pc' = "panic"
                      /\ UNCHANGED <<errors, idx>>
                 ELSE /\ errors' = errors + 1
                      /\ trace' = trace \o << Ev("create", issue.ID, FALSE, h, 0, 0),
                                              Ev("wait", issue.ID, TRUE, h, WaitTime(h), 0) >>
                      /\ idx' = AfterIssue
                      /\ pc' = "loop"
                      /\ UNCHANGED dest
  /\ UNCHANGED <<rev, hdrMode, runsLeft, export, issues, imported, isNumber,
                 history, stderr, labelsFlag>>

\* ------------------------------------------------- the create revision
\* line 510: sort
CreateBegin ==
  /\ rev = "create" /\ pc = "main"
  /\ issues' = SortByID(issues)
  /\ idx' = 1
  /\ pc' = "loop"
  /\ UNCHANGED <<rev, hdrMode, runsLeft, export, imported, errors, closed, err,
                 isNumber, resp, dest, trace, history, unknownLog, stderr,
                 labelsFlag, labels>>

\* lines 547-552: the tally of Issues.Create
TallyCreateNoElse(ok) ==
  /\ imported' = imported + 1
  /\ errors' = IF ok THEN errors ELSE errors + 1

TallyCreate(ok) ==
  IF ok THEN imported' = imported + 1 /\ UNCHANGED errors
  ELSE errors' = errors + 1 /\ UNCHANGED imported

\* lines 511-552: the status switch, Issues.Create and its tally
CreateCall ==
  /\ rev = "create" /\ pc = "loop" /\ idx <= Len(issues)
  /\ LET issue == issues[idx]
     IN  /\ labels' = DeriveLabels(labelsFlag, issue)
         /\ closed' = StatusClosed(issue.Status)
         /\ unknownLog' = IF StatusUnknown(issue.Status)
                          THEN Append(unknownLog, issue.ID) ELSE unknownLog
         /\ \E ok \in BOOLEAN, h \in Hdrs, num \in BOOLEAN :
              \* is.Number is read at line 554 alone, for a created issue whose
              \* state is closed: a nil number is drawn only there
              /\ (~ok => ~num)
              /\ (ok /\ ~closed' => num)
              /\ resp' = h
              /\ err' = ~ok
              /\ trace' = Append(trace, Ev("create", issue.ID, ok, h, 0,
                                          IF num THEN Len(dest) + 1 ELSE 0))
              /\ TallyCreate(ok)
              /\ IF ok
                 THEN /\ dest' = Append(dest, [src |-> issue.ID, closed |-> FALSE])
                      /\ isNumber' = IF num THEN Len(dest) + 1 ELSE 0
                 ELSE /\ isNumber' = 0
                      /\ UNCHANGED dest
  /\ pc' = "created"
  /\ UNCHANGED <<rev, hdrMode, runsLeft, export, issues, idx, history, stderr,
                 labelsFlag>>

CloseWantedAnyState == ~err /\ isNumber # 0

CloseWantedNilNumber == ~err /\ closed

\* the condition of line 554
CloseWanted == ~err /\ closed /\ isNumber # 0

\* lines 559-564: the tally of Issues.Edit
TallyCloseSilent(ok) ==
  IF ok THEN imported' = imported + 1 /\ UNCHANGED errors
  ELSE UNCHANGED <<imported, errors>>

TallyClose(ok) ==
  IF ok THEN imported' = imported + 1 /\ UNCHANGED errors
  ELSE errors' = errors + 1 /\ UNCHANGED imported

\* lines 554-565: Issues.Edit and its tally
CloseCall ==
  /\ rev = "create" /\ pc = "created" /\ CloseWanted
  /\ \E ok \in BOOLEAN, h \in Hdrs :
       /\ trace' = Append(trace, Ev("edit", issues[idx].ID, ok, h, 0, isNumber))
       /\ TallyClose(ok)
       /\ dest' = IF ok /\ isNumber \in 1..Len(dest)
                  THEN [dest EXCEPT ![isNumber].closed = TRUE] ELSE dest
  /\ pc' = "pause"
  /\ UNCHANGED <<rev, hdrMode, runsLeft, export, issues, idx, closed, err,
                 isNumber, resp, history, unknownLog, stderr, labelsFlag, labels>>

\* lines 567-578: the pause at the end of the iteration
Pause ==
  /\ rev = "create"
  /\ pc = "pause" \/ (pc = "created" /\ ~CloseWanted)
  /\ trace' = Append(trace, Ev("wait", issues[idx].ID, TRUE, resp, InlineWaitTime(resp), 0))
  /\ idx' = AfterIssue
  /\ pc' = "loop"
  /\ UNCHANGED <<rev, hdrMode, runsLeft, export, issues, imported, errors, closed,
                 err, isNumber, resp, dest, history, unknownLog, stderr,
                 labelsFlag, labels>>

\* ------------------------------------------------------------ both
\* lines 304-305 and 581-582: Octocat and the final Fprintln
Report ==
  /\ pc = "loop" /\ idx > Len(issues)
  /\ \E ok \in BOOLEAN :
       /\ trace' = Append(trace, Ev("octocat", 0, ok, <<>>, 0, 0))
       /\ stderr' = Append(stderr, ReportLine(ok))
  /\ pc' = "done"
  /\ UNCHANGED <<rev, hdrMode, runsLeft, export, issues, idx, imported, errors,
                 closed, err, isNumber, resp, dest, history, unknownLog,
                 labelsFlag, labels>>

\* the operator starts the command again on the same archive
Rerun ==
  /\ pc \in {"done", "fatal", "panic"}
  /\ runsLeft > 0
  /\ runsLeft' = runsLeft - 1
  /\ issues' = export
  /\ idx' = 1
  /\ pc' = "main"
  /\ imported' = 0
  /\ errors' = 0
  /\ closed' = FALSE
  /\ err' = FALSE
  /\ isNumber' = 0
  /\ resp' = <<>>
  /\ history' = Append(history, trace)
  /\ trace' = <<>>
  /\ unknownLog' = <<>>
  /\ stderr' = <<>>
  /\ labels' = <<>>
  /\ UNCHANGED <<rev, hdrMode, export, dest, labelsFlag>>

NextImport == ImportEnumerate \/ ImportIssue \/ Report \/ Rerun
NextCreate == CreateBegin \/ CreateCall \/ CloseCall \/ Pause \/ Report \/ Rerun
Next == ImportEnumerate \/ ImportIssue \/ CreateBegin \/ CreateCall \/ CloseCall
          \/ Pause \/ Report \/ Rerun

Spec == Init /\ [][Next]_vars
SpecImport == InitImport /\ [][NextImport]_vars
SpecCreate == InitCreate /\ [][NextCreate]_vars
\* ----------------------------------------------------------- run summaries
IsCreate(e) == e.op = "create"
IsEdit(e) == e.op = "edit"
IsWait(e) == e.op = "wait"
IsFailedCreate(e) == e.op = "create" /\ ~e.ok
Creates(t) == SelectSeq(t, IsCreate)
Edits(t) == SelectSeq(t, IsEdit)
FailedCreates(t) == SelectSeq(t, IsFailedCreate)
IdsOf(t) == [i \in 1..Len(t) |-> t[i].id]

\* the run is between two iterations of the loop, or over
AtBoundary == pc \in {"loop", "done"}

\* the issues the loop has gone through
Processed == 1..(idx - 1)

\* every create returned err == nil with the issue's number, every edit
\* returned err == nil
AllCallsSucceeded(t) ==
  \A i \in 1..Len(t) :
    /\ t[i].op = "create" => t[i].ok /\ t[i].num # 0
    /\ t[i].op = "edit" => t[i].ok

\* as AllCallsSucceeded, but for the creates that failed
OthersSucceeded(t) ==
  \A i \in 1..Len(t) :
    /\ t[i].op = "create" /\ t[i].ok => t[i].num # 0
    /\ t[i].op = "edit" => t[i].ok

C1Open == <<"o","p","e","n">>
C1Resolved == <<"r","e","s","o","l","v","e","d">>
C1Wontfix == <<"w","o","n","t","f","i","x">>
\* the statuses the specification maps to closed, in lower case
C1ClosedWords ==
  { C1Resolved, C1Wontfix, <<"c","l","o","s","e","d">>,
    <<"i","n","v","a","l","i","d">>, <<"d","u","p","l","i","c","a","t","e">> }

InSeq(x, q) == \E i \in 1..Len(q) : q[i] = x
Max(a, b) == IF a >= b THEN a ELSE b
Min(a, b) == IF a <= b THEN a ELSE b

\* the run is over: main returned, panicked, or logger.Fatalf ended it
RunOver == pc \in {"done", "panic", "fatal"}

\* the count ListByRepo returned in this run
ListOk(t) == t # <<>> /\ t[1].op = "list" /\ t[1].ok

\* C3: once the enumeration has succeeded the run never aborts, and when it
\* is over every post-skip issue has had its create request and the final
\* line has been written exactly once, after the last issue.
C3_RunNeverAborts ==
  ListOk(trace) =>
    /\ pc # "panic"
    /\ pc = "done" =>
         /\ IdsOf(Creates(trace)) = [i \in 1..Len(issues) |-> issues[i].ID]
         /\ Len(stderr) = 1
         /\ trace[Len(trace)].op = "octocat"

\* C4: with S the sorted export and n the count the enumeration returned,
\* the loop ranges over S[n:] (nothing when n >= len(S)), a finished run has
\* made max(0, len(S) - n) create requests, and no issue at a sorted
\* position <= n is sent.
C4_SkipResolution ==
  ListOk(trace) =>
    LET S == SortByID(export)
        n == trace[1].num
    IN  /\ issues = (IF n < Len(S) THEN SubSeq(S, n + 1, Len(S)) ELSE <<>>)
        /\ \A i \in 1..Len(trace) : trace[i].op = "create" =>
             \A k \in 1..Min(n, Len(S)) : S[k].ID # trace[i].id
        /\ pc \in {"done", "panic"} => Len(Creates(trace)) = Max(0, Len(S) - n)

\* the first run sent a create for every source issue and each succeeded
FirstRunCreatedAll ==
  /\ Len(history) >= 1
  /\ LET S == SortByID(export)
     IN  /\ \A k \in 1..Len(S) : \E i \in 1..Len(history[1]) :
               /\ history[1][i].op = "create" /\ history[1][i].ok
               /\ history[1][i].id = S[k].ID
         /\ \A i \in 1..Len(history[1]) : history[1][i].op = "create" => history[1][i].ok

NoDuplicateIssue ==
  \A i, j \in 1..Len(dest) : (i # j /\ dest[i].src # 0) => dest[i].src # dest[j].src

\* C5: when the first run created every source issue successfully, the
\* second run sends no create request and the destination holds no source
\* issue twice.
C5_RerunIdempotent ==
  (Len(history) = 1 /\ FirstRunCreatedAll) =>
    /\ Creates(trace) = <<>>
    /\ NoDuplicateIssue

\* the issue whose status the switch last mapped
LastIdx == IF pc \in {"created", "pause", "panic"} THEN idx ELSE idx - 1
HasLast == pc \notin {"main", "fatal"} /\ LastIdx \in 1..Len(issues)

C6OpenWords ==
  { <<"n","e","w">>, <<"o","p","e","n">>, <<"o","n"," ","h","o","l","d">>,
    <<"o","n","h","o","l","d">> }
\* st is word w in some mix of upper and lower case
C6IsVariant(st, w) ==
  /\ Len(st) = Len(w)
  /\ \A i \in 1..Len(w) : st[i] \in {w[i], ToUpperChar(w[i])}
C6ClosedVariant(st) == \E w \in C1ClosedWords : C6IsVariant(st, w)
C6OpenVariant(st) == \E w \in C6OpenWords : C6IsVariant(st, w)

IsFailedCall(e) == e.op \in {"create", "edit"} /\ ~e.ok

\* C6: every letter-case variant of resolved, closed, invalid, wontfix,
\* duplicate maps to closed; every variant of new, open, on hold, onhold
\* maps to not closed; any other non-empty status maps to not closed, is
\* logged as unknown, adds nothing to errors, and its issue is still sent.
C6_StatusMapping ==
  HasLast =>
    LET st == issues[LastIdx].Status
        id == issues[LastIdx].ID
    IN  /\ C6ClosedVariant(st) => closed
        /\ C6OpenVariant(st) => ~closed
        /\ (st # <<>> /\ ~C6ClosedVariant(st) /\ ~C6OpenVariant(st)) =>
             /\ ~closed
             /\ InSeq(id, unknownLog)
             /\ errors = Len(SelectSeq(trace, IsFailedCall))
             /\ InSeq(id, IdsOf(Creates(trace)))

C6_Witness ==
  /\ HasLast
  /\ issues[LastIdx].Status = <<"R","e","S","o","L","v","E","d">>
  /\ closed
  /\ InSeq(issues[LastIdx].ID, IdsOf(Creates(trace)))

\* C7: an empty status maps to not closed, its issue is sent, and no
\* unknown-status line is logged for it.
C7_EmptyStatusRecognized ==
  (HasLast /\ issues[LastIdx].Status = <<>>) =>
    /\ ~closed
    /\ InSeq(issues[LastIdx].ID, IdsOf(Creates(trace)))
    /\ ~InSeq(issues[LastIdx].ID, unknownLog)

\* a decimal integer: an optional sign and one or more digits
C8IsInteger(h) ==
  LET b == IF h # <<>> /\ h[1] \in {"+", "-"} THEN Tail(h) ELSE h
  IN  b # <<>> /\ \A i \in 1..Len(b) : IsDigit(b[i])

C8IntValue(h) ==
  IF h[1] = "-" THEN 0 - DecVal(Tail(h))
  ELSE IF h[1] = "+" THEN DecVal(Tail(h)) ELSE DecVal(h)

C8Expected(h) ==
  IF h = <<>> THEN Second
  ELSE IF C8IsInteger(h) THEN C8IntValue(h) * Second
  ELSE IF ParseDuration(h).ok THEN ParseDuration(h).d
  ELSE Second

C9_MalformedGivesFloor ==
  \A i \in 1..Len(trace) :
    ( /\ trace[i].op = "wait"
      /\ trace[i].hdr # <<>>
      /\ ~(C8IsInteger(trace[i].hdr) /\ C8IntValue(trace[i].hdr) >= 0)
      /\ ~ParseDuration(trace[i].hdr).ok ) => trace[i].d = Second

C10Calls == {"list", "create", "edit"}

\* C10: a destination API call is always followed by a pause before the
\* next call: no two calls are adjacent in the run.
C10_PauseBetweenCalls ==
  \A i \in 1..(Len(trace) - 1) :
    trace[i].op \in C10Calls => trace[i + 1].op \notin C10Calls
\* ---------------------------------------------------------------- C11
\* C11: every completed run has written the line "Imported <N>, Errors <M>"
\* with the final tally to stderr, whether the octocat fetch succeeded or
\* failed
C11_SummaryAlwaysWritten ==
  pc = "done" => stderr = << [imported |-> imported, errors |-> errors] >>

\* ---------------------------------------------------------------- C12
RECURSIVE C12NonEmpty(_)
C12NonEmpty(q) ==
  IF q = <<>> THEN <<>>
  ELSE (IF q[1] = <<>> THEN <<>> ELSE <<q[1]>>) \o C12NonEmpty(Tail(q))

C12Expected(flag, issue) ==
  C12NonEmpty(Split(flag))
    \o C12NonEmpty(<<issue.Priority, issue.Kind>>)
    \o (IF issue.Component = <<>> THEN <<>> ELSE C12NonEmpty(<<issue.Component[1]>>))
    \o C12NonEmpty(<<issue.Status>>)

\* C12: the label list derived for an issue is the extra labels, then
\* priority, kind, component and raw status, in that order, and holds no
\* empty string, whatever fields are empty and whatever the -labels value
C12_LabelsInOrderNoEmpty ==
  HasLast =>
    /\ labels = C12Expected(labelsFlag, issues[LastIdx])
    /\ \A i \in 1..Len(labels) : labels[i] # <<>>

\* ---------------------------------------------------------------- C13
C13Ascending(q) == \A i \in 1..(Len(q) - 1) : q[i] < q[i + 1]

C13ExportIds == { export[i].ID : i \in 1..Len(export) }

\* C13: after the sort the working list is ascending by ID, and the create
\* requests of a run are issued in strictly ascending ID order, for issues
\* of the export only and at most once per issue, whatever the order of the
\* export and whichever calls failed
C13_AscendingCreates ==
  /\ pc # "main" => C13Ascending([i \in 1..Len(issues) |-> issues[i].ID])
  /\ C13Ascending(IdsOf(Creates(trace)))
  /\ \A i \in 1..Len(trace) : IsCreate(trace[i]) => trace[i].id \in C13ExportIds

C13_Witness ==
  /\ pc = "done"
  /\ Len(export) = 3
  /\ export[1].ID > export[2].ID /\ export[2].ID < export[3].ID
  /\ Len(Creates(trace)) = 3
  /\ Len(FailedCreates(trace)) = 1

\* ---------------------------------------------------------------- C14
C14ListFailed == trace # <<>> /\ trace[1].op = "list" /\ ~trace[1].ok

\* C14: when the enumeration of the destination's issues fails the run is
\* over at once: the failed listing is the run's only call (no create, no
\* close), the tally stays at 0/0 and no summary is written
C14_EnumerationFailureIsFatal ==
  C14ListFailed =>
    /\ pc = "fatal"
    /\ Len(trace) = 1
    /\ imported = 0 /\ errors = 0
    /\ stderr = <<>>

C14_Witness ==
  /\ C14ListFailed
  /\ pc = "fatal"
  /\ Len(export) = MaxIssues
  /\ dest # <<>>

\* ---------------------------------------------------------------- C15
C15StatusOf(id) ==
  LET k == CHOOSE i \in 1..Len(export) : export[i].ID = id IN export[k].Status

\* C15: a close request is the call right after the successful create of
\* the same issue (so it precedes the next issue's create), it is issued
\* only for a status that maps to closed, and it targets the issue number
\* that this create returned
C15_CloseFollowsItsCreate ==
  \A j \in 1..Len(trace) :
    IsEdit(trace[j]) =>
      /\ j > 1
      /\ IsCreate(trace[j - 1])
      /\ trace[j - 1].ok
      /\ trace[j - 1].id = trace[j].id
      /\ trace[j - 1].num # 0
      /\ trace[j].num = trace[j - 1].num
      /\ C6ClosedVariant(C15StatusOf(trace[j].id))

C15_Witness ==
  \E j \in 2..Len(trace) :
    /\ IsEdit(trace[j])
    /\ \E k \in (j + 1)..Len(trace) : IsCreate(trace[k]) /\ trace[k].id > trace[j].id

\* ---------------------------------------------------------------- C16
\* C16: every pause is computed from the Retry-After header of the call
\* right before it: the create's after a create, the close's after a close
C16_PauseUsesPrecedingCall ==
  \A j \in 2..Len(trace) :
    IsWait(trace[j]) /\ trace[j - 1].op \in {"list", "create", "edit"} =>
      trace[j].hdr = trace[j - 1].hdr

\* ---------------------------------------------------------------- C17
IsCloseFailure(e) == e.op = "edit" /\ ~e.ok
IsNumberedShut(e) == e.op = "create" /\ e.ok /\ e.num # 0 /\ C6ClosedVariant(C15StatusOf(e.id))
CloseFailures(t) == SelectSeq(t, IsCloseFailure)

\* C17: when every create of the run so far succeeded and returned a number,
\* each issue whose close failed counts one in imported and one in errors,
\* every other issue counts as in C1, and the issues after it are still
\* created
C17_CloseFailureCountsBoth ==
  AtBoundary /\ FailedCreates(trace) = <<>>
      /\ (\A j \in 1..Len(trace) : IsCreate(trace[j]) => trace[j].num # 0) =>
    /\ errors = Len(CloseFailures(trace))
    /\ imported = Cardinality(Processed)
                    + Len(SelectSeq(trace, IsNumberedShut)) - Len(CloseFailures(trace))
    /\ Len(Creates(trace)) = Cardinality(Processed)
    /\ pc = "done" => Len(Creates(trace)) = Len(export)

C17_Witness ==
  /\ pc = "done"
  /\ Len(export) = 3
  /\ FailedCreates(trace) = <<>>
  /\ \E j \in 2..Len(trace) :
       /\ IsCloseFailure(trace[j])
       /\ \E k \in (j + 1)..Len(trace) : IsCreate(trace[k])
  /\ imported = 3 /\ errors = 1

\* ---------------------------------------------------------------- C18
IsOkCall(e) == e.op \in {"create", "edit"} /\ e.ok
C18Imp(id) == Cardinality({ j \in 1..Len(trace) : IsOkCall(trace[j]) /\ trace[j].id = id })
C18Err(id) == Cardinality({ j \in 1..Len(trace) : IsFailedCall(trace[j]) /\ trace[j].id = id })

IsNumberless(e) == e.op = "create" /\ e.ok /\ e.num = 0

\* C20: a create that succeeds for a closed-status issue without returning an
\* issue number is followed by no close request: the next call is the next
\* issue's create; it adds one to imported and nothing to errors
C20_NoNumberNoClose ==
  /\ \A j \in 1..Len(trace) :
       IsNumberless(trace[j]) /\ C6ClosedVariant(C15StatusOf(trace[j].id)) =>
         /\ \A k \in 1..Len(trace) : IsEdit(trace[k]) => trace[k].id # trace[j].id
         /\ C18Imp(trace[j].id) = 1 /\ C18Err(trace[j].id) = 0
  /\ AtBoundary /\ (\A j \in 1..Len(trace) : IsCreate(trace[j]) => IsNumberless(trace[j])) =>
       /\ imported = Cardinality(Processed) /\ errors = 0
       /\ Len(Creates(trace)) = Cardinality(Processed)

C20_Witness ==
  /\ pc = "done"
  /\ \E j \in 1..Len(trace) :
       /\ IsNumberless(trace[j])
       /\ C6ClosedVariant(C15StatusOf(trace[j].id))
       /\ \E k \in (j + 1)..Len(trace) : IsCreate(trace[k])
  /\ Len(Creates(trace)) = 3
  /\ \A j \in 1..Len(trace) : IsCreate(trace[j]) => IsNumberless(trace[j])
  /\ imported = 3 /\ errors = 0

\* ---------------------------------------------------------------- C19
C19LastOf(S, f) == SubSeq(S, Len(S) - f + 1, Len(S))

\* C19: when a first run against an empty destination ended with f >= 1
\* failed creates, the second run skips the first N - f issues of the sorted
\* export: its working list is the last f issues, and when it is over it has
\* sent a create for exactly those
C19_RerunCreatesLastFailed ==
  (/\ Len(history) = 1
   /\ ListOk(history[1]) /\ history[1][1].num = 0
   /\ Len(FailedCreates(history[1])) >= 1
   /\ ListOk(trace)) =>
    LET S == SortByID(export)
        f == Len(FailedCreates(history[1]))
    IN  /\ issues = C19LastOf(S, f)
        /\ pc = "done" => IdsOf(Creates(trace)) = IdsOf(C19LastOf(S, f))

====
